---- MODULE Spec2Model ----
(***************************************************************************)
(* Group/session state reconciliation of the HEOS integration:             *)
(*   custom_components/heos/__init__.py      GroupManager                  *)
(*   custom_components/heos/media_player.py  HeosMediaPlayer.get_groups    *)
(*                                                                         *)
(* Python dicts are modelled as sequences of their keys in insertion       *)
(* order (a dict of players is keyed by player_id and its value is the     *)
(* player with that id).  The code compares player ids for equality only,  *)
(* so the controller's group topologies are enumerated up to a renaming    *)
(* of the players, while the arguments of join and unjoin range over all   *)
(* players in every order.                                                 *)
(***************************************************************************)
EXTENDS Integers, Sequences, FiniteSets, TLC

\* ------------------------------------------------------------------ bounds
NumPlayers == 4
MaxMembers == 2
MaxPairs == 2
MaxUpdates == 2

Players == 1..NumPlayers

\* ------------------------------------------------------- python dict model
Range(s) == {s[i] : i \in 1..Len(s)}

IsInjective(s) == \A i, j \in 1..Len(s) : s[i] = s[j] => i = j

\* d[k] = v on a dict kept as its key sequence: a new key goes last, an
\* existing key keeps its position.
DictSet(d, k) == IF k \in Range(d) THEN d ELSE Append(d, k)

DictUpdate_appends(d, other) == d \o other

\* d.update(other)
RECURSIVE DictUpdate(_, _)
DictUpdate(d, other) ==
    IF other = <<>> THEN d
    ELSE DictUpdate(DictSet(d, Head(other)), Tail(other))

\* GroupManager.playerdict
playerdict(players) == DictUpdate(<<>>, players)

\* ------------------------------------------------------------ controller
\* A group as pyheos reports it: group id (the leader's player id), leader,
\* members in reported order, name.
GroupNameOf(leader) == "group" \o ToString(leader)

MkGroup(leader, members) ==
    [gid |-> leader, leader |-> leader, members |-> members,
     name |-> GroupNameOf(leader)]

RECURSIVE SumSeq(_)
SumSeq(s) == IF s = <<>> THEN 0 ELSE Head(s) + SumSeq(Tail(s))

\* The ways to cut k players into consecutive groups of two or more.
SizeSeqs(k) ==
    {s \in UNION {[1..n -> 2..NumPlayers] : n \in 0..(k \div 2)} : SumSeq(s) = k}

RECURSIVE Chunk(_, _)
Chunk(flat, sizes) ==
    IF sizes = <<>> THEN <<>>
    ELSE <<MkGroup(flat[1], SubSeq(flat, 2, Head(sizes)))>>
         \o Chunk(SubSeq(flat, Head(sizes) + 1, Len(flat)), Tail(sizes))

\* The group topologies get_groups can report, up to a renaming of the
\* players: the players 1..k cut into groups, k <= NumPlayers.
Topologies ==
    UNION {{Chunk([i \in 1..k |-> i], s) : s \in SizeSeqs(k)} : k \in 0..NumPlayers}

\* The dicts of players a caller can pass: up to MaxMembers distinct players.
PlayerDicts ==
    UNION {{s \in [1..n -> Players] : IsInjective(s)} : n \in 0..MaxMembers}

\* ---------------------------------------------------- host entity platform
\* hass.data[media_player].entities: one HeosMediaPlayer per player, in the
\* order the players were loaded.
EntityIdOf(p) == "media_player.heos" \o ToString(p)

entities == [i \in 1..NumPlayers |-> [entity_id |-> EntityIdOf(i), player_id |-> i]]

NoneEntityId == "<None>"
NoneName == "<None>"
EmptyName == ""
EmptyGroupId == 0
NoneGroupId == -1

\* -------------------------------------------------- GroupManager: queries
\* A store is the dict self.groups: its groups in the order get_groups
\* returned them, each keyed by its gid.
player_member(group, player) == \E i \in 1..Len(group.members) : group.members[i] = player

players_member(group, players) ==
    \E i \in 1..Len(players) : player_member(group, players[i])

player_master(group, player) == group.leader = player

RECURSIVE entity_id_scan(_, _)
entity_id_scan(devices, playerid) ==
    IF devices = <<>> THEN NoneEntityId
    ELSE IF playerid = Head(devices).player_id THEN Head(devices).entity_id
    ELSE entity_id_scan(Tail(devices), playerid)

entity_id_from_player_id(playerid) == entity_id_scan(entities, playerid)

RECURSIVE get_groupid_leaderonly(_, _)
get_groupid_leaderonly(store, player) ==
    IF store = <<>> THEN EmptyGroupId
    ELSE IF player_master(Head(store), player) THEN Head(store).gid
    ELSE get_groupid_leaderonly(Tail(store), player)

RECURSIVE get_groupid(_, _)
get_groupid(store, player) ==
    IF store = <<>> THEN EmptyGroupId
    ELSE IF player_master(Head(store), player) \/ player_member(Head(store), player)
         THEN Head(store).gid
    ELSE get_groupid(Tail(store), player)

\* self.groups.get(groupid, None)
HasGroup(store, groupid) == \E i \in 1..Len(store) : store[i].gid = groupid

GroupOf(store, groupid) == store[CHOOSE i \in 1..Len(store) : store[i].gid = groupid]

get_grouplist_membersonly(store, groupid) ==
    IF HasGroup(store, groupid)
    THEN LET group == GroupOf(store, groupid)
         IN  [i \in 1..Len(group.members) |-> entity_id_from_player_id(group.members[i])]
    ELSE <<>>

get_grouplist(store, groupid) ==
    IF HasGroup(store, groupid)
    THEN LET group == GroupOf(store, groupid)
         IN  <<entity_id_from_player_id(group.leader)>>
             \o [i \in 1..Len(group.members) |-> entity_id_from_player_id(group.members[i])]
    ELSE <<>>

get_groupname(store, groupid) ==
    IF HasGroup(store, groupid) THEN GroupOf(store, groupid).name ELSE EmptyName

\* ------------------------------------------- GroupManager: refresh_groups
\* self.groups = await self.controller.get_groups(refresh=True): the
\* assignment happens only when the await returns.
RefreshedStore_merged(store, reported) == store \o reported

RefreshedStore(store, reported) == reported

\* When get_groups raises, the assignment is never reached.
FailedRefreshStore_cleared(store) == <<>>

FailedRefreshStore(store) == store

\* --------------------------------------------------- GroupManager: join
\* The scan of join: the group the master already leads, as a dict.
RECURSIVE JoinScan(_, _)
JoinScan(store, master) ==
    IF store = <<>> THEN <<>>
    ELSE IF master = Head(store).leader
         THEN DictUpdate(DictSet(<<>>, master), playerdict(Head(store).members))
    ELSE JoinScan(Tail(store), master)

join_newgroup_nomaster(store, master, members) ==
    DictUpdate(JoinScan(store, master), members)

join_newgroup_fragment(store, master, members) ==
    DictUpdate(DictSet(<<>>, master), members)

join_newgroup(store, master, members) ==
    LET scanned == JoinScan(store, master)
        newgroup == IF store = <<>> \/ Len(scanned) = 0
                    THEN DictSet(scanned, master)
                    ELSE scanned
    IN  DictUpdate(newgroup, members)

\* -------------------------------------------------- GroupManager: unjoin
\* for removeplayer in members.values(): one old member against every
\* player to remove.
RECURSIVE UnjoinInner(_, _, _)
UnjoinInner(newgroup, oldmember, removeplayers) ==
    IF removeplayers = <<>> THEN newgroup
    ELSE UnjoinInner(IF oldmember = Head(removeplayers)
                     THEN newgroup
                     ELSE DictSet(newgroup, oldmember),
                     oldmember, Tail(removeplayers))

\* for oldmember in group.members
RECURSIVE UnjoinOuter(_, _, _)
UnjoinOuter(newgroup, oldmembers, removeplayers) ==
    IF oldmembers = <<>> THEN newgroup
    ELSE UnjoinOuter(UnjoinInner(newgroup, Head(oldmembers), removeplayers),
                     Tail(oldmembers), removeplayers)

UnjoinMemberBranch_noleader(group, members) ==
    UnjoinOuter(<<>>, group.members, members)

\* The elif branch: the leader, then the members that stay.
UnjoinMemberBranch(group, members) ==
    UnjoinOuter(DictSet(<<>>, group.leader), group.members, members)

UnjoinLeaderBranch_keepsmembers(group) ==
    DictUpdate(DictSet(<<>>, group.leader), playerdict(group.members))

\* The if branch: the leader is to be removed, the group is dissolved.
UnjoinLeaderBranch(group) == DictSet(<<>>, group.leader)

RECURSIVE unjoin_newgroup_lastmatch(_, _)
unjoin_newgroup_lastmatch(store, members) ==
    IF store = <<>> THEN <<>>
    ELSE LET later == unjoin_newgroup_lastmatch(Tail(store), members)
         IN  IF later # <<>> THEN later
             ELSE IF Head(store).leader \in Range(members)
                  THEN UnjoinLeaderBranch(Head(store))
             ELSE IF players_member(Head(store), members)
                  THEN UnjoinMemberBranch(Head(store), members)
             ELSE <<>>

unjoin_newgroup_anygroup(store, members) ==
    IF store = <<>> THEN <<>>
    ELSE IF Head(store).leader \in Range(members)
         THEN UnjoinLeaderBranch(Head(store))
    ELSE UnjoinMemberBranch(Head(store), members)

\* for groupid, group in self.groups.items(): newgroup is reset on every
\* iteration and the loop breaks at the first group that matches.
RECURSIVE unjoin_newgroup(_, _)
unjoin_newgroup(store, members) ==
    IF store = <<>> THEN <<>>
    ELSE IF Head(store).leader \in Range(members)
         THEN UnjoinLeaderBranch(Head(store))
    ELSE IF players_member(Head(store), members)
         THEN UnjoinMemberBranch(Head(store), members)
    ELSE unjoin_newgroup(Tail(store), members)

\* -------------------------------------- GroupManager: groupcmd_controller
Comma == ","

\* cmdstring += f"{member.player_id}," for every entry of newgroup; the
\* string is kept as its pieces, a number or a comma each.
RECURSIVE CmdString(_)
CmdString(newgroup) ==
    IF newgroup = <<>> THEN <<>>
    ELSE <<ToString(Head(newgroup)), Comma>> \o CmdString(Tail(newgroup))

\* str.rstrip(",")
RECURSIVE RStrip(_)
RStrip(s) ==
    IF s # <<>> /\ s[Len(s)] = Comma THEN RStrip(SubSeq(s, 1, Len(s) - 1)) ELSE s

\* cmdstring.rstrip(",") is evaluated and its value dropped: the string
\* passed on is the unstripped one.
CmdStringSent(newgroup) == CmdString(newgroup)

SendsCommand_skipsingle(newgroup) == Len(newgroup) > 1

SendsCommand_always(newgroup) == TRUE

\* if len(newgroup) > 0: ... create_group(cmdstring, "") else: return None
SendsCommand(newgroup) == Len(newgroup) > 0

\* ------------------------------------------------ controller: create_group
\* The player ids the controller reads from a member-id string: the
\* elements between commas, empty elements ignored.
PidOfToken(tok) == CHOOSE p \in Players : ToString(p) = tok

RECURSIVE ParsePids(_)
ParsePids(cmd) ==
    IF cmd = <<>> THEN <<>>
    ELSE IF Head(cmd) = Comma THEN ParsePids(Tail(cmd))
    ELSE <<PidOfToken(Head(cmd))>> \o ParsePids(Tail(cmd))

SeqMinus(s, removed) == SelectSeq(s, LAMBDA x : x \notin removed)

\* The topology after the controller has set a group to pids (leader
\* first): a single pid dissolves the group that player leads; otherwise
\* the named players leave the groups they were in, a group that loses its
\* leader or its last member is dissolved, and the leader's group is
\* defined as given.
ApplyCreateGroup(topology, pids) ==
    LET leader == Head(pids)
        moved == Range(pids)
        members == SeqMinus(playerdict(Tail(pids)), {leader})
        others == SelectSeq(topology, LAMBDA g : g.leader \notin moved)
        shrunk == [i \in 1..Len(others) |->
                     MkGroup(others[i].leader, SeqMinus(others[i].members, moved))]
        kept == SelectSeq(shrunk, LAMBDA g : g.members # <<>>)
    IN  IF members = <<>>
        THEN SelectSeq(topology, LAMBDA g : g.leader # leader)
        ELSE Append(kept, MkGroup(leader, members))

\* ------------------------------------------------------------------ state
VARIABLES
    ctrlGroups,   \* the controller's group topology (what get_groups reports)
    connected,    \* controller.connection_state == STATE_CONNECTED
    groups,       \* GroupManager.groups, the store
    call,         \* the join or unjoin call in progress and what it did
    ent,          \* per player: the group state of its HeosMediaPlayer entity
    devReg,       \* the host's device registry
    entReg,       \* the host's entity registry
    bridge,       \* ControllerManager: subscriptions, event handler, signals
    query,        \* the last query of the store and its answer
    setup,        \* async_setup_entry: its position and what it has done
    sources       \* SourceManager: its lists and the refresh in progress

vars == <<ctrlGroups, connected, groups, call, ent, devReg, entReg, bridge, query,
          setup, sources>>

\* What the group manager and the entities' get_groups never touch.
hostVars == <<devReg, entReg, bridge, query, setup, sources>>

\* master_device = None: the master entity id matched no entity.
NonePlayer == 0

NoPrev == [op |-> "none", returned |-> "pending", newgroup |-> <<>>, store |-> <<>>]

\* No second join has been called while the first is awaiting.  Of a
\* second join, early tells that its refresh returned before the command of
\* the first was acknowledged, and late that the refresh of the first had
\* returned before its own command was acknowledged.
NoSecond ==
    [pc |-> "idle", members |-> <<>>, newgroup |-> <<>>, cmd |-> <<>>,
     returned |-> "pending", early |-> FALSE, late |-> FALSE]

\* refreshes, creates and playerloads count the get_groups, create_group and
\* get_players requests of the call, fault is the error the controller
\* answered a request with, raised the exception that left the call
\* uncaught, replaced tells that the refresh of the call put a different
\* mapping into the store, changed that its command changed the
\* controller's topology, prev the call that was made before this one:
\* what it was, what it returned, the target set it computed and the store
\* it left.
IdleCall ==
    [pc |-> "idle", op |-> "none", master |-> NonePlayer, members |-> <<>>,
     newgroup |-> <<>>, invoked |-> FALSE, cmd |-> <<>>,
     returned |-> "pending", logged |-> FALSE,
     refreshes |-> 0, creates |-> 0, playerloads |-> 0, fault |-> "none",
     raised |-> "none", replaced |-> FALSE, changed |-> FALSE,
     prev |-> NoPrev, second |-> NoSecond]

\* The registries as the platform setup filled them: one device and one
\* entity per player, the device identified by (DOMAIN, player_id), the
\* entity by the unique id str(player_id).
InitialDevReg ==
    [i \in 1..NumPlayers |-> [id |-> "device" \o ToString(i), key |-> i]]

InitialEntReg ==
    [i \in 1..NumPlayers |-> [entity_id |-> EntityIdOf(i), unique_id |-> ToString(i)]]

\* ControllerManager after connect_listeners, no event being handled:
\* mapped is the mapping last given to update_ids, updates counts the calls
\* of update_ids, signals flips with every SIGNAL_HEOS_UPDATED dispatched,
\* raised tells that the last handler ended in an uncaught exception,
\* pending holds the players whose entity has a _heos_updated scheduled by
\* a dispatch and not yet started.
IdleBridge ==
    [subscribed |-> TRUE, teardown |-> "none", handler |-> "idle",
     mapped |-> <<>>, updates |-> 0, signals |-> 0, raised |-> FALSE,
     pending |-> {}]

NoQuery ==
    [kind |-> "none", player |-> NonePlayer, groupid |-> EmptyGroupId,
     gid |-> EmptyGroupId, list |-> <<>>, name |-> EmptyName]

\* async_setup_entry has returned True: the stop listener is registered,
\* hass.data[DOMAIN] is stored, the services are registered and the media
\* player platform is being set up.  fault tells that a HeosError occurred,
\* disconnected that controller.disconnect() was called by the setup;
\* favorites and inputs are its local variables.
SetupComplete ==
    [pc |-> "done", result |-> "True", fault |-> FALSE, disconnected |-> FALSE,
     stop_listener |-> TRUE, data |-> TRUE, services |-> TRUE,
     favorites |-> <<>>, inputs |-> <<>>]

\* SourceManager.__init__ with no favorites and no inputs, no refresh in
\* progress: favorites is kept as the names of favorites.values() in order,
\* inputs as the names of the inputs; attempts counts the passes of the
\* loop of get_sources in the refresh in progress, fetched holds the
\* favorites the pass has got, recent tells that get_sources was called
\* less than MIN_UPDATE_SOURCES ago, dispatched counts the signals the
\* refresh has dispatched and last is how the last refresh ended.
IdleSources ==
    [signed_in |-> TRUE, favorites |-> <<>>, inputs |-> <<>>,
     source_list |-> <<>>, pc |-> "idle", retry_attempts |-> 0, attempts |-> 0,
     fetched |-> <<>>, recent |-> FALSE, dispatched |-> 0, last |-> "none"]

HostIdle ==
    /\ devReg = InitialDevReg
    /\ entReg = InitialEntReg
    /\ bridge = IdleBridge
    /\ query = NoQuery
    /\ setup = SetupComplete
    /\ sources = IdleSources

\* HeosMediaPlayer.__init__
NewEntity ==
    [status |-> "new", groupid |-> NoneGroupId, group_list |-> <<>>,
     group_name |-> NoneName]

\* GroupManager.__init__ leaves the store empty and async_setup_entry loads
\* it once; whatever it holds by the time of a call is an earlier report
\* of the controller.
Init ==
    /\ ctrlGroups \in Topologies
    /\ connected = TRUE
    /\ groups \in Topologies
    /\ call = IdleCall
    /\ ent = [p \in Players |-> NewEntity]
    /\ HostIdle

\* --------------------------------------------------- join / unjoin calls
\* join(master, members) up to its first await.
JoinCall(master, members) ==
    /\ call.pc = "idle"
    /\ call' = [IdleCall EXCEPT !.pc = "refreshing", !.op = "join",
                                !.master = master, !.members = members,
                                !.refreshes = 1]
    /\ UNCHANGED <<ctrlGroups, connected, groups, ent>>
    /\ UNCHANGED hostVars

\* unjoin(members) up to its first await.
UnjoinCall(members) ==
    /\ call.pc = "idle"
    /\ call' = [IdleCall EXCEPT !.pc = "refreshing", !.op = "unjoin",
                                !.members = members, !.refreshes = 1]
    /\ UNCHANGED <<ctrlGroups, connected, groups, ent>>
    /\ UNCHANGED hostVars

NewGroupOf_cached(c, store) ==
    IF c.op = "join" THEN join_newgroup(groups, c.master, c.members)
    ELSE unjoin_newgroup(groups, c.members)

NewGroupOf(c, store) ==
    IF c.op = "join" THEN join_newgroup(store, c.master, c.members)
    ELSE unjoin_newgroup(store, c.members)

\* refresh_groups returns: the store is replaced, the target set is computed
\* from it and groupcmd_controller runs up to its await of create_group, or
\* returns None.  With master None, join fails on master.player_id (in the
\* loop, or after it when the store is empty) with an AttributeError, which
\* neither join nor the handler catches.
CallRefreshReturns ==
    /\ call.pc = "refreshing"
    /\ groups' = RefreshedStore(groups, ctrlGroups)
    /\ IF call.op = "join" /\ call.master = NonePlayer
       THEN call' = [call EXCEPT !.pc = "done", !.raised = "AttributeError",
                                 !.replaced = (groups' # groups)]
       ELSE LET newgroup == NewGroupOf(call, groups')
            IN  IF SendsCommand(newgroup)
                THEN call' = [call EXCEPT !.pc = "sending", !.newgroup = newgroup,
                                          !.invoked = TRUE, !.creates = @ + 1,
                                          !.cmd = CmdStringSent(newgroup),
                                          !.replaced = (groups' # groups)]
                ELSE call' = [call EXCEPT !.pc = "done", !.newgroup = newgroup,
                                          !.returned = "None",
                                          !.replaced = (groups' # groups)]
    /\ UNCHANGED <<ctrlGroups, connected, ent>>
    /\ UNCHANGED hostVars

CallRefreshRaises_retry ==
    /\ call.pc = "refreshing"
    /\ groups' = FailedRefreshStore(groups)
    /\ call' = IF call.refreshes < 2
               THEN [call EXCEPT !.refreshes = @ + 1]
               ELSE [call EXCEPT !.pc = "done", !.fault = "HeosError",
                                 !.logged = TRUE, !.returned = "None"]
    /\ UNCHANGED <<ctrlGroups, connected, ent>>
    /\ UNCHANGED hostVars

\* refresh_groups raises HeosError: caught by join/unjoin and logged.
CallRefreshRaises ==
    /\ call.pc = "refreshing"
    /\ groups' = FailedRefreshStore(groups)
    /\ call' = [call EXCEPT !.pc = "done", !.fault = "HeosError",
                             !.logged = TRUE, !.returned = "None"]
    /\ UNCHANGED <<ctrlGroups, connected, ent>>
    /\ UNCHANGED hostVars

\* create_group is acknowledged: the controller has applied the member list.
CreateGroupReturns ==
    /\ call.pc = "sending"
    /\ ctrlGroups' = ApplyCreateGroup(ctrlGroups, ParsePids(call.cmd))
    /\ call' = [call EXCEPT !.pc = "done", !.returned = "ack",
                             !.changed = (ctrlGroups' # ctrlGroups)]
    /\ UNCHANGED <<connected, groups, ent>>
    /\ UNCHANGED hostVars

CreateGroupRaises_propagates ==
    /\ call.pc = "sending"
    /\ call' = [call EXCEPT !.pc = "done", !.fault = "HeosError",
                             !.raised = "HeosError"]
    /\ UNCHANGED <<ctrlGroups, connected, groups, ent>>
    /\ UNCHANGED hostVars

\* create_group raises HeosError: caught by join/unjoin and logged.
CreateGroupRaises ==
    /\ call.pc = "sending"
    /\ call' = [call EXCEPT !.pc = "done", !.fault = "HeosError",
                             !.logged = TRUE, !.returned = "None"]
    /\ UNCHANGED <<ctrlGroups, connected, groups, ent>>
    /\ UNCHANGED hostVars

Next ==
    \/ \E master \in Players, members \in PlayerDicts : JoinCall(master, members)
    \/ \E members \in PlayerDicts : UnjoinCall(members)
    \/ CallRefreshReturns
    \/ CallRefreshRaises
    \/ CreateGroupReturns
    \/ CreateGroupRaises

Spec == Init /\ [][Next]_vars

\* ------------------------------------------------- services.py: handlers
UnknownEntityId == "media_player.unknown"

\* The entity ids a service call can name as master, and the lists of
\* entity ids it can name as members.
MasterIds == {EntityIdOf(p) : p \in Players} \cup {UnknownEntityId}

EntityIdLists ==
    {ids \in SUBSET {EntityIdOf(p) : p \in Players} : Cardinality(ids) <= MaxMembers}

\* The loop over hass.data[media_player].entities in _join_handler: the
\* entity named as master becomes master_device, every other entity named
\* in entity_ids goes to group_devices under its player id.
RECURSIVE MasterDeviceScan(_, _, _)
MasterDeviceScan(devices, master, found) ==
    IF devices = <<>> THEN found
    ELSE MasterDeviceScan(Tail(devices), master,
                          IF Head(devices).entity_id = master
                          THEN Head(devices).player_id ELSE found)

MasterDevice(master) == MasterDeviceScan(entities, master, NonePlayer)

RECURSIVE JoinDevicesScan(_, _, _, _)
JoinDevicesScan(devices, master, entity_ids, group_devices) ==
    IF devices = <<>> THEN group_devices
    ELSE JoinDevicesScan(Tail(devices), master, entity_ids,
                         IF Head(devices).entity_id = master THEN group_devices
                         ELSE IF Head(devices).entity_id \in entity_ids
                              THEN DictSet(group_devices, Head(devices).player_id)
                         ELSE group_devices)

JoinDevices(master, entity_ids) == JoinDevicesScan(entities, master, entity_ids, <<>>)

\* The loop of _unjoin_handler.
RECURSIVE UnjoinDevicesScan(_, _, _)
UnjoinDevicesScan(devices, entity_ids, group_devices) ==
    IF devices = <<>> THEN group_devices
    ELSE UnjoinDevicesScan(Tail(devices), entity_ids,
                           IF Head(devices).entity_id \in entity_ids
                           THEN DictSet(group_devices, Head(devices).player_id)
                           ELSE group_devices)

UnjoinDevices(entity_ids) == UnjoinDevicesScan(entities, entity_ids, <<>>)

HandlerProceeds_unchecked(isConnected) == TRUE

\* if controller.connection_state != const.STATE_CONNECTED: log, return
HandlerProceeds(isConnected) == isConnected

\* The early return of a handler: an error is logged, nothing else happens.
HandlerNotConnected(op) ==
    /\ call' = [IdleCall EXCEPT !.pc = "done", !.op = op, !.logged = TRUE,
                                !.returned = "None"]
    /\ UNCHANGED <<ctrlGroups, connected, groups, ent>>
    /\ UNCHANGED hostVars

JoinHandler(master, entity_ids) ==
    /\ call.pc = "idle"
    /\ IF HandlerProceeds(connected)
       THEN JoinCall(MasterDevice(master), JoinDevices(master, entity_ids))
       ELSE HandlerNotConnected("join")

UnjoinHandler(entity_ids) ==
    /\ call.pc = "idle"
    /\ IF HandlerProceeds(connected)
       THEN UnjoinCall(UnjoinDevices(entity_ids))
       ELSE HandlerNotConnected("unjoin")

\* groupinfo() up to its first await; the service can be called again after
\* an earlier call has returned.
GroupinfoCall ==
    /\ call' = [IdleCall EXCEPT !.pc = "info_refreshing", !.op = "groupinfo",
                                !.refreshes = 1,
                                !.prev = [op |-> call.op,
                                          returned |-> call.returned,
                                          newgroup |-> call.newgroup,
                                          store |-> groups]]
    /\ UNCHANGED <<ctrlGroups, connected, groups, ent>>
    /\ UNCHANGED hostVars

GroupinfoHandler ==
    /\ call.pc \in {"idle", "done"}
    /\ call.op # "groupinfo"
    /\ IF HandlerProceeds(connected)
       THEN GroupinfoCall
       ELSE HandlerNotConnected("groupinfo")

\* refresh_groups of groupinfo returns; get_players(refresh=True) is awaited.
GroupinfoRefreshReturns ==
    /\ call.pc = "info_refreshing"
    /\ groups' = RefreshedStore(groups, ctrlGroups)
    /\ call' = [call EXCEPT !.pc = "info_players", !.playerloads = @ + 1]
    /\ UNCHANGED <<ctrlGroups, connected, ent>>
    /\ UNCHANGED hostVars

\* refresh_groups of groupinfo raises HeosError: caught and logged.
GroupinfoRefreshRaises ==
    /\ call.pc = "info_refreshing"
    /\ groups' = FailedRefreshStore(groups)
    /\ call' = [call EXCEPT !.pc = "done", !.fault = "HeosError",
                             !.logged = TRUE, !.returned = "None"]
    /\ UNCHANGED <<ctrlGroups, connected, ent>>
    /\ UNCHANGED hostVars

\* get_players returns: the two listings are logged and returned.
GetPlayersReturns ==
    /\ call.pc = "info_players"
    /\ call' = [call EXCEPT !.pc = "done", !.returned = "info"]
    /\ UNCHANGED <<ctrlGroups, connected, groups, ent>>
    /\ UNCHANGED hostVars

\* get_players raises HeosError: caught and logged.
GetPlayersRaises ==
    /\ call.pc = "info_players"
    /\ call' = [call EXCEPT !.pc = "done", !.fault = "HeosError",
                             !.logged = TRUE, !.returned = "None"]
    /\ UNCHANGED <<ctrlGroups, connected, groups, ent>>
    /\ UNCHANGED hostVars

\* A service call arrives with the connection up or down.
InitService ==
    /\ ctrlGroups \in Topologies
    /\ connected \in BOOLEAN
    /\ groups \in Topologies
    /\ call = IdleCall
    /\ ent = [p \in Players |-> NewEntity]
    /\ HostIdle

NextService ==
    \/ \E master \in MasterIds, entity_ids \in EntityIdLists :
          JoinHandler(master, entity_ids)
    \/ \E entity_ids \in EntityIdLists : UnjoinHandler(entity_ids)
    \/ GroupinfoHandler
    \/ CallRefreshReturns
    \/ CallRefreshRaises
    \/ CreateGroupReturns
    \/ CreateGroupRaises
    \/ GroupinfoRefreshReturns
    \/ GroupinfoRefreshRaises
    \/ GetPlayersReturns
    \/ GetPlayersRaises

SpecService == InitService /\ [][NextService]_vars

\* A join or unjoin call of the group manager with any arguments, and the
\* groupinfo service called after it.
NextGroups ==
    \/ Next
    \/ GroupinfoHandler
    \/ GroupinfoRefreshReturns
    \/ GroupinfoRefreshRaises
    \/ GetPlayersReturns
    \/ GetPlayersRaises

SpecGroups == Init /\ [][NextGroups]_vars

\* ------------------------------------------------- two joins overlap
\* Nothing keeps a second service call from running while the first awaits
\* the controller.  join(master, members) for the master of the join in
\* progress, up to its first await.
SecondJoinCall(members) ==
    /\ call.op = "join"
    /\ call.pc \in {"refreshing", "sending"}
    /\ call.master # NonePlayer
    /\ call.second.pc = "idle"
    /\ call' = [call EXCEPT !.second = [NoSecond EXCEPT !.pc = "refreshing",
                                                        !.members = members]]
    /\ UNCHANGED <<ctrlGroups, connected, groups, ent>>
    /\ UNCHANGED hostVars

\* refresh_groups of the second join returns: the store is replaced, the
\* target set is computed from it and create_group is awaited.
SecondRefreshReturns ==
    /\ call.second.pc = "refreshing"
    /\ groups' = RefreshedStore(groups, ctrlGroups)
    /\ LET newgroup == join_newgroup(groups', call.master, call.second.members)
       IN  call' = [call EXCEPT !.second.pc = "sending",
                                !.second.newgroup = newgroup,
                                !.second.cmd = CmdStringSent(newgroup),
                                !.second.early = (call.pc \in {"refreshing", "sending"})]
    /\ UNCHANGED <<ctrlGroups, connected, ent>>
    /\ UNCHANGED hostVars

\* create_group of the second join is acknowledged.
SecondCreateGroupReturns ==
    /\ call.second.pc = "sending"
    /\ ctrlGroups' = ApplyCreateGroup(ctrlGroups, ParsePids(call.second.cmd))
    /\ call' = [call EXCEPT !.second.pc = "done", !.second.returned = "ack",
                             !.second.late = (call.pc # "refreshing")]
    /\ UNCHANGED <<connected, groups, ent>>
    /\ UNCHANGED hostVars

\* _join_handler called for the master of the join in progress.
SecondJoinHandler(entity_ids) ==
    /\ HandlerProceeds(connected)
    /\ SecondJoinCall(JoinDevices(EntityIdOf(call.master), entity_ids))

\* Two join service calls against a controller that answers every request,
\* from a store that the setup has refreshed.
InitOverlap ==
    /\ ctrlGroups \in Topologies
    /\ connected = TRUE
    /\ groups = ctrlGroups
    /\ call = IdleCall
    /\ ent = [p \in Players |-> NewEntity]
    /\ HostIdle

NextOverlap ==
    \/ \E master \in MasterIds, entity_ids \in EntityIdLists :
          JoinHandler(master, entity_ids)
    \/ CallRefreshReturns
    \/ CreateGroupReturns
    \/ \E entity_ids \in EntityIdLists : SecondJoinHandler(entity_ids)
    \/ SecondRefreshReturns
    \/ SecondCreateGroupReturns

SpecOverlap == InitOverlap /\ [][NextOverlap]_vars

\* ------------------------------------------ HeosMediaPlayer.get_groups
EntityAfterRefresh_torn(e, store, player) ==
    LET groupid == get_groupid(store, player)
    IN  [status |-> "ok", groupid |-> groupid,
         group_list |-> get_grouplist(store, groupid),
         group_name |-> get_groupname(groups, groupid)]

\* The try block after refresh_groups returned: the three attributes are
\* read from the store one after the other, with no await in between.
EntityAfterRefresh(e, store, player) ==
    LET groupid == get_groupid(store, player)
    IN  [status |-> "ok", groupid |-> groupid,
         group_list |-> get_grouplist(store, groupid),
         group_name |-> get_groupname(store, groupid)]

\* The except HeosError block: name and list are reset, _groupid is left.
EntityAfterError(e) ==
    [e EXCEPT !.status = "error", !.group_name = EmptyName, !.group_list = <<>>]

GetGroupsStart_unchecked(e, isconnected) == [e EXCEPT !.status = "refreshing"]

\* get_groups up to its await; not connected, it logs an error and returns
\* [] with no attribute changed (status "refused").
GetGroupsStart(e, isconnected) ==
    IF isconnected THEN [e EXCEPT !.status = "refreshing"]
    ELSE [e EXCEPT !.status = "refused"]

GetGroupsCall(p) ==
    /\ ent[p].status # "refreshing"
    /\ ent' = [ent EXCEPT ![p] = GetGroupsStart(ent[p], connected)]
    /\ UNCHANGED <<ctrlGroups, connected, groups, call>>
    /\ UNCHANGED hostVars

GetGroupsRefreshReturns_querybefore(p) ==
    /\ ent[p].status = "refreshing"
    /\ connected
    /\ groups' = RefreshedStore(groups, ctrlGroups)
    /\ ent' = [ent EXCEPT ![p] = EntityAfterRefresh(ent[p], groups, p)]
    /\ UNCHANGED <<ctrlGroups, connected, call>>
    /\ UNCHANGED hostVars

GetGroupsRefreshReturns(p) ==
    /\ ent[p].status = "refreshing"
    /\ connected
    /\ groups' = RefreshedStore(groups, ctrlGroups)
    /\ ent' = [ent EXCEPT ![p] = EntityAfterRefresh(ent[p], groups', p)]
    /\ UNCHANGED <<ctrlGroups, connected, call>>
    /\ UNCHANGED hostVars

GetGroupsRefreshRaises(p) ==
    /\ ent[p].status = "refreshing"
    /\ groups' = FailedRefreshStore(groups)
    /\ ent' = [ent EXCEPT ![p] = EntityAfterError(ent[p])]
    /\ UNCHANGED <<ctrlGroups, connected, call>>
    /\ UNCHANGED hostVars

\* The connection to the controller is lost / re-established.
ConnectionLost ==
    /\ connected
    /\ connected' = FALSE
    /\ UNCHANGED <<ctrlGroups, groups, call, ent>>
    /\ UNCHANGED hostVars

ConnectionRestored ==
    /\ ~connected
    /\ connected' = TRUE
    /\ UNCHANGED <<ctrlGroups, groups, call, ent>>
    /\ UNCHANGED hostVars

\* The entities after platform setup, the store as GroupManager.__init__
\* made it.
InitEntity ==
    /\ ctrlGroups \in Topologies
    /\ connected = TRUE
    /\ groups = <<>>
    /\ call = IdleCall
    /\ ent = [p \in Players |-> NewEntity]
    /\ HostIdle

NextEntity ==
    \/ \E p \in Players : connected /\ GetGroupsCall(p)
    \/ \E p \in Players : GetGroupsRefreshReturns(p)
    \/ \E p \in Players : GetGroupsRefreshRaises(p)
    \/ ConnectionLost
    \/ ConnectionRestored

SpecEntity == InitEntity /\ [][NextEntity]_vars

\* ------------------------------- a call and an entity at the same time
\* Nothing in GroupManager or HeosMediaPlayer keeps a join or unjoin call
\* and the get_groups of an entity apart: each runs up to its next await.
\* One service call and the get_groups of one entity are followed, from a
\* store that the setup has refreshed.
OneEntity(p) == \A q \in Players \ {p} : ent[q] = NewEntity

InitStale ==
    /\ ctrlGroups \in Topologies
    /\ connected = TRUE
    /\ groups = ctrlGroups
    /\ call = IdleCall
    /\ ent = [p \in Players |-> NewEntity]
    /\ HostIdle

NextStale ==
    \/ \E master \in MasterIds, entity_ids \in EntityIdLists :
          JoinHandler(master, entity_ids)
    \/ \E entity_ids \in EntityIdLists : UnjoinHandler(entity_ids)
    \/ CallRefreshReturns
    \/ CallRefreshRaises
    \/ CreateGroupReturns
    \/ CreateGroupRaises
    \/ \E p \in Players : OneEntity(p) /\ GetGroupsCall(p)
    \/ \E p \in Players : OneEntity(p) /\ GetGroupsRefreshReturns(p)
    \/ \E p \in Players : OneEntity(p) /\ GetGroupsRefreshRaises(p)

SpecStale == InitStale /\ [][NextStale]_vars

\* --------------------------------------- controller errors, all callers
\* One service call, or the get_groups of one entity, against a controller
\* whose requests can fail.
ServiceTurn == \A q \in Players : ent[q] = NewEntity

EntityTurn(p) ==
    /\ call.pc = "idle"
    /\ \A q \in Players \ {p} : ent[q] = NewEntity

NextErrors ==
    \/ ServiceTurn /\ NextService
    \/ \E p \in Players : EntityTurn(p) /\ GetGroupsCall(p)
    \/ \E p \in Players : EntityTurn(p) /\ GetGroupsRefreshReturns(p)
    \/ \E p \in Players : EntityTurn(p) /\ GetGroupsRefreshRaises(p)

SpecErrors == InitService /\ [][NextErrors]_vars

\* ------------------------------------- ControllerManager: update_ids
\* mapped_ids is a dict new id -> old id: a sequence of pairs in insertion
\* order with distinct new ids; the controller maps every old player to one
\* new id that differs from the old one.
IdPairs == {pr \in [new : Players, old : Players] : pr.new # pr.old}

RECURSIVE SeqsUpTo(_, _)
SeqsUpTo(S, n) ==
    IF n = 0 THEN {<<>>}
    ELSE LET shorter == SeqsUpTo(S, n - 1)
         IN shorter \cup {Append(sq, x) : sq \in shorter, x \in S}

Mappings ==
    {m \in SeqsUpTo(IdPairs, MaxPairs) :
        \A i, j \in DOMAIN m :
            i # j => (m[i].new # m[j].new /\ m[i].old # m[j].old)}

\* A registry update that found its record: the record is re-keyed.  When
\* another record holds the new key already, the host either applies the
\* update or rejects it with an exception.
RekeyOutcomes(reg, applied, clash) ==
    IF clash
    THEN {[reg |-> applied, raised |-> FALSE], [reg |-> reg, raised |-> TRUE]}
    ELSE {[reg |-> applied, raised |-> FALSE]}

DeviceNotFound_raises(reg) == {[reg |-> reg, raised |-> TRUE]}

\* if entry: ... -- no device has the old identifier, nothing is done
DeviceNotFound(reg) == {[reg |-> reg, raised |-> FALSE]}

\* async_get_device({(DOMAIN, old_id)}) and async_update_device(entry.id,
\* new_identifiers={(DOMAIN, new_id)})
DeviceUpdateOutcomes(reg, new, old) ==
    LET found == {i \in DOMAIN reg : reg[i].key = old}
    IN IF found = {} THEN DeviceNotFound(reg)
       ELSE UNION {RekeyOutcomes(reg, [reg EXCEPT ![i].key = new],
                                 \E j \in DOMAIN reg : j # i /\ reg[j].key = new)
                   : i \in found}

\* if entity_id: ... -- no entity has the old unique id, nothing is done
EntityNotFound(reg) == {[reg |-> reg, raised |-> FALSE]}

\* async_get_entity_id(MEDIA_PLAYER_DOMAIN, DOMAIN, str(old_id)) and
\* async_update_entity(entity_id, new_unique_id=str(new_id))
EntityUpdateOutcomes(reg, new, old) ==
    LET found == {i \in DOMAIN reg : reg[i].unique_id = ToString(old)}
    IN IF found = {} THEN EntityNotFound(reg)
       ELSE UNION {RekeyOutcomes(reg, [reg EXCEPT ![i].unique_id = ToString(new)],
                                 \E j \in DOMAIN reg :
                                     j # i /\ reg[j].unique_id = ToString(new))
                   : i \in found}

\* One turn of the loop of update_ids: the device registry, then the entity
\* registry; an exception ends the loop.
UpdateIdsStep(st, pr) ==
    IF st.raised THEN {st}
    ELSE UNION {IF d.raised
                THEN {[dev |-> d.reg, ent |-> st.ent, raised |-> TRUE]}
                ELSE {[dev |-> d.reg, ent |-> e.reg, raised |-> e.raised]
                      : e \in EntityUpdateOutcomes(st.ent, pr.new, pr.old)}
                : d \in DeviceUpdateOutcomes(st.dev, pr.new, pr.old)}

RECURSIVE UpdateIdsLoop(_, _)
UpdateIdsLoop(sts, mapped) ==
    IF mapped = <<>> THEN sts
    ELSE UpdateIdsLoop(UNION {UpdateIdsStep(st, Head(mapped)) : st \in sts},
                       Tail(mapped))

update_ids(mapped, device_registry, entity_registry) ==
    UpdateIdsLoop({[dev |-> device_registry, ent |-> entity_registry,
                    raised |-> FALSE]}, mapped)

\* ------------------------------------------ ControllerManager: events
\* The controller reports one remapping, and may report it again.
Reported(mappings) ==
    IF bridge.mapped = <<>> THEN mappings ELSE {bridge.mapped}

Reportable(mapped) ==
    /\ bridge.updates < MaxUpdates
    /\ mapped # <<>>
    /\ bridge.mapped \in {<<>>, mapped}

\* async_dispatcher_send(SIGNAL_HEOS_UPDATED): the _heos_updated of every
\* entity is scheduled.
Dispatched(b) == [b EXCEPT !.signals = 1 - @, !.pending = Players]

\* update_ids(mapped) followed by the dispatch of SIGNAL_HEOS_UPDATED; an
\* exception out of update_ids ends the handler before the dispatch.  The
\* _heos_event that awaits load_players is left awaiting by the handler of
\* another event (after).
UpdateAndDispatch(mapped, after) ==
    \E out \in update_ids(mapped, devReg, entReg) :
        /\ devReg' = out.dev
        /\ entReg' = out.ent
        /\ bridge' = IF out.raised
                     THEN [bridge EXCEPT !.handler = after, !.mapped = mapped,
                                         !.updates = @ + 1, !.raised = TRUE]
                     ELSE Dispatched([bridge EXCEPT !.handler = after,
                                                    !.mapped = mapped,
                                                    !.updates = @ + 1,
                                                    !.raised = FALSE])

\* _controller_event(EVENT_PLAYERS_CHANGED, data)
PlayersChangedEvent(mapped) ==
    /\ bridge.subscribed
    /\ connected
    /\ Reportable(mapped)
    /\ UpdateAndDispatch(mapped, bridge.handler)
    /\ UNCHANGED <<ctrlGroups, connected, groups, call, ent, query, setup, sources>>

\* _controller_event with any other event, _heos_event with any event but
\* EVENT_CONNECTED: the signal is dispatched.
OtherEvent ==
    /\ bridge.subscribed
    /\ connected
    /\ bridge' = Dispatched([bridge EXCEPT !.raised = FALSE])
    /\ UNCHANGED <<ctrlGroups, connected, groups, call, ent, devReg, entReg, query, setup, sources>>

\* _heos_event(EVENT_CONNECTED) up to await self.controller.load_players()
ConnectedEvent ==
    /\ bridge.subscribed
    /\ connected
    /\ bridge.handler = "idle"
    /\ bridge.updates < MaxUpdates
    /\ bridge' = [bridge EXCEPT !.handler = "loading", !.raised = FALSE]
    /\ UNCHANGED <<ctrlGroups, connected, groups, call, ent, devReg, entReg, query, setup, sources>>

\* load_players returns: update_ids(data[DATA_MAPPED_IDS]), then the signal.
LoadPlayersReturns(mapped) ==
    /\ bridge.handler = "loading"
    /\ mapped \in Reported({mapped})
    /\ IF mapped = <<>>
       THEN /\ bridge' = Dispatched([bridge EXCEPT !.handler = "idle"])
            /\ UNCHANGED <<devReg, entReg>>
       ELSE UpdateAndDispatch(mapped, "idle")
    /\ UNCHANGED <<ctrlGroups, connected, groups, call, ent, query, setup, sources>>

\* load_players raises HeosError: logged, then the signal.
LoadPlayersRaises ==
    /\ bridge.handler = "loading"
    /\ bridge' = Dispatched([bridge EXCEPT !.handler = "idle"])
    /\ UNCHANGED <<ctrlGroups, connected, groups, call, ent, devReg, entReg, query, setup, sources>>

\* ControllerManager.disconnect, called by async_unload_entry
Unload ==
    /\ bridge.teardown = "none"
    /\ bridge' = [bridge EXCEPT !.subscribed = FALSE, !.teardown = "unload"]
    /\ connected' = FALSE
    /\ UNCHANGED <<ctrlGroups, groups, call, ent, devReg, entReg, query, setup, sources>>

\* disconnect_controller, the handler of EVENT_HOMEASSISTANT_STOP
HostStop ==
    /\ bridge.teardown = "none"
    /\ bridge' = [bridge EXCEPT !.teardown = "stop"]
    /\ connected' = FALSE
    /\ UNCHANGED <<ctrlGroups, groups, call, ent, devReg, entReg, query, setup, sources>>

\* The registries hold a record for each player that was set up and has not
\* been removed from them since.  update_ids compares ids by equality only
\* and the mappings range over all ids, so the sets of registered players
\* are enumerated up to a renaming of the players.
Registered(reg, S) == SelectSeq(reg, LAMBDA r : \E p \in S : r = reg[p])

RegisteredSets == {1..k : k \in 0..NumPlayers}

\* Remappings are applied to registries that hold any set of the players.
InitRegistry ==
    /\ ctrlGroups = <<>>
    /\ connected = TRUE
    /\ groups = <<>>
    /\ call = IdleCall
    /\ ent = [p \in Players |-> NewEntity]
    /\ \E S \in RegisteredSets :
          /\ devReg = Registered(InitialDevReg, S)
          /\ entReg = Registered(InitialEntReg, S)
    /\ bridge = IdleBridge
    /\ query = NoQuery
    /\ setup = SetupComplete
    /\ sources = IdleSources

NextRegistry == \E mapped \in Reported(Mappings) : PlayersChangedEvent(mapped)

SpecRegistry == InitRegistry /\ [][NextRegistry]_vars

\* The events of a running integration and its teardown; a remapping
\* reported here renames one player.
RenamedOne == {m \in Mappings : Len(m) <= 1}

InitBridge ==
    /\ ctrlGroups = <<>>
    /\ connected = TRUE
    /\ groups = <<>>
    /\ call = IdleCall
    /\ ent = [p \in Players |-> NewEntity]
    /\ HostIdle

NextBridge ==
    \/ \E mapped \in Reported(RenamedOne) : PlayersChangedEvent(mapped)
    \/ OtherEvent
    \/ ConnectedEvent
    \/ \E mapped \in Reported(RenamedOne) : LoadPlayersReturns(mapped)
    \/ LoadPlayersRaises
    \/ Unload
    \/ HostStop

SpecBridge == InitBridge /\ [][NextBridge]_vars

\* ------------------------------------- the signal and the entities
\* _heos_updated of the entity of player p, scheduled by a dispatch of
\* SIGNAL_HEOS_UPDATED, up to the await in get_groups.  The scheduled
\* callbacks start in the order in which the entities subscribed, and one
\* get_groups per entity is followed at a time.
HeosUpdated(p) ==
    /\ p \in bridge.pending
    /\ \A q \in bridge.pending : p <= q
    /\ ent[p].status # "refreshing"
    /\ bridge' = [bridge EXCEPT !.pending = @ \ {p}]
    /\ ent' = [ent EXCEPT ![p] = GetGroupsStart(ent[p], connected)]
    /\ UNCHANGED <<ctrlGroups, connected, groups, call, devReg, entReg, query, setup, sources>>

\* The store holds what the refresh of the setup reported; the groups of
\* the controller are those or have been changed since by another remote.
\* The events carry no remapping and the requests of the entities succeed.
InitSignal ==
    /\ ctrlGroups \in Topologies
    /\ groups \in Topologies
    /\ connected = TRUE
    /\ call = IdleCall
    /\ ent = [p \in Players |-> NewEntity]
    /\ HostIdle

NextSignal ==
    \/ OtherEvent
    \/ ConnectedEvent
    \/ LoadPlayersReturns(<<>>)
    \/ LoadPlayersRaises
    \/ \E p \in Players : HeosUpdated(p)
    \/ \E p \in Players : GetGroupsRefreshReturns(p)

SpecSignal == InitSignal /\ [][NextSignal]_vars

\* ------------------------------------------------ a lost connection
\* _heos_event(EVENT_DISCONNECTED): the controller is no longer connected
\* when the event is handled, and the signal is dispatched.
DisconnectedEvent ==
    /\ bridge.subscribed
    /\ connected
    /\ connected' = FALSE
    /\ bridge' = Dispatched([bridge EXCEPT !.raised = FALSE])
    /\ UNCHANGED <<ctrlGroups, groups, call, ent, devReg, entReg, query, setup, sources>>

\* The entities refresh while the controller is connected; the connection
\* is lost and comes back, and get_groups is called meanwhile, by the signal
\* or by an update of the entity.
NextOffline ==
    \/ \E p \in Players : GetGroupsCall(p)
    \/ \E p \in Players : GetGroupsRefreshReturns(p)
    \/ \E p \in Players : HeosUpdated(p)
    \/ DisconnectedEvent
    \/ ConnectionRestored

SpecOffline == InitEntity /\ [][NextOffline]_vars

\* ---------------------------------------------------- async_setup_entry
\* What the controller can report as favorites and as inputs (names).
FavoriteLists == {<<>>, <<"fav1">>, <<"fav1", "fav2">>}

InputLists == {<<>>, <<"aux1">>}

\* _build_source_list: the names of the favorites, then those of the inputs.
build_source_list(favorites, inputs) == favorites \o inputs

\* async_setup_entry is called: nothing is registered or stored yet.
NewSetup ==
    [SetupComplete EXCEPT !.pc = "connecting", !.result = "pending",
                          !.stop_listener = FALSE, !.data = FALSE,
                          !.services = FALSE]

\* except HeosError: await controller.disconnect(); raise
\* ConfigEntryNotReady (lines 79-84 and 106-109)
SetupNotReady(s) ==
    [s EXCEPT !.pc = "done", !.result = "ConfigEntryNotReady", !.fault = TRUE,
              !.disconnected = TRUE]

SetupFrame == UNCHANGED <<ctrlGroups, call, ent, devReg, entReg, query>>

\* controller.connect returns; the stop listener is registered and
\* get_players is awaited.
SetupConnectReturns ==
    /\ setup.pc = "connecting"
    /\ connected' = TRUE
    /\ setup' = [setup EXCEPT !.pc = "players", !.stop_listener = TRUE]
    /\ UNCHANGED <<groups, bridge, sources>>
    /\ SetupFrame

SetupConnectRaises ==
    /\ setup.pc = "connecting"
    /\ connected' = FALSE
    /\ setup' = SetupNotReady(setup)
    /\ UNCHANGED <<groups, bridge, sources>>
    /\ SetupFrame

\* get_players returns; get_favorites is awaited if the controller is
\* signed in, get_input_sources otherwise.
SetupPlayersReturns ==
    /\ setup.pc = "players"
    /\ setup' = [setup EXCEPT !.pc = IF sources.signed_in THEN "favorites"
                                     ELSE "inputs"]
    /\ UNCHANGED <<connected, groups, bridge, sources>>
    /\ SetupFrame

SetupFavoritesReturns(favorites) ==
    /\ setup.pc = "favorites"
    /\ setup' = [setup EXCEPT !.pc = "inputs", !.favorites = favorites]
    /\ UNCHANGED <<connected, groups, bridge, sources>>
    /\ SetupFrame

SetupInputsReturns(inputs) ==
    /\ setup.pc = "inputs"
    /\ setup' = [setup EXCEPT !.pc = "music_sources", !.inputs = inputs]
    /\ UNCHANGED <<connected, groups, bridge, sources>>
    /\ SetupFrame

\* get_music_sources returns: the ControllerManager is made, its listeners
\* are connected and refresh_groups is awaited.
SetupMusicSourcesReturns ==
    /\ setup.pc = "music_sources"
    /\ setup' = [setup EXCEPT !.pc = "refreshing"]
    /\ bridge' = [bridge EXCEPT !.subscribed = TRUE]
    /\ UNCHANGED <<connected, groups, sources>>
    /\ SetupFrame

\* One of the requests of the try block of lines 93-105 raises HeosError.
SetupFetchRaises ==
    /\ setup.pc \in {"players", "favorites", "inputs", "music_sources"}
    /\ connected' = FALSE
    /\ setup' = SetupNotReady(setup)
    /\ UNCHANGED <<groups, bridge, sources>>
    /\ SetupFrame

\* refresh_groups returns: the SourceManager is made, hass.data[DOMAIN] is
\* stored, the services are registered and True is returned.
SetupRefreshReturns ==
    /\ setup.pc = "refreshing"
    /\ groups' = RefreshedStore(groups, ctrlGroups)
    /\ sources' = [sources EXCEPT !.favorites = setup.favorites,
                                  !.inputs = setup.inputs,
                                  !.source_list = build_source_list(setup.favorites,
                                                                    setup.inputs)]
    /\ setup' = [setup EXCEPT !.pc = "done", !.result = "True", !.data = TRUE,
                              !.services = TRUE]
    /\ UNCHANGED <<connected, bridge>>
    /\ SetupFrame

\* refresh_groups raises HeosError on line 114, outside every try block:
\* the exception leaves async_setup_entry as it is.
SetupRefreshRaises ==
    /\ setup.pc = "refreshing"
    /\ groups' = FailedRefreshStore(groups)
    /\ setup' = [setup EXCEPT !.pc = "done", !.result = "HeosError",
                              !.fault = TRUE]
    /\ UNCHANGED <<connected, bridge, sources>>
    /\ SetupFrame

InitSetup ==
    /\ ctrlGroups \in Topologies
    /\ connected = FALSE
    /\ groups = <<>>
    /\ call = IdleCall
    /\ ent = [p \in Players |-> NewEntity]
    /\ devReg = InitialDevReg
    /\ entReg = InitialEntReg
    /\ bridge = [IdleBridge EXCEPT !.subscribed = FALSE]
    /\ query = NoQuery
    /\ setup = NewSetup
    /\ \E signed_in \in BOOLEAN :
          sources = [IdleSources EXCEPT !.signed_in = signed_in]

NextSetup ==
    \/ SetupConnectReturns
    \/ SetupConnectRaises
    \/ SetupPlayersReturns
    \/ \E favorites \in FavoriteLists : SetupFavoritesReturns(favorites)
    \/ \E inputs \in InputLists : SetupInputsReturns(inputs)
    \/ SetupMusicSourcesReturns
    \/ SetupFetchRaises
    \/ SetupRefreshReturns
    \/ SetupRefreshRaises

SpecSetup == InitSetup /\ [][NextSetup]_vars

\* ------------------------------------- SourceManager.connect_update
\* const.py: COMMAND_RETRY_ATTEMPTS, the default of max_retry_attempts
COMMAND_RETRY_ATTEMPTS == 2

\* if event in (EVENT_SOURCES_CHANGED, EVENT_USER_CHANGED, EVENT_CONNECTED)
SourceEvents == {"sources_changed", "user_changed", "connected"}

HeosEvents == SourceEvents \cup {"players_changed", "groups_changed", "disconnected"}

ShouldRetry_inclusive(retry_attempts) == retry_attempts <= COMMAND_RETRY_ATTEMPTS

\* if retry_attempts < self.max_retry_attempts
ShouldRetry(retry_attempts) == retry_attempts < COMMAND_RETRY_ATTEMPTS

\* One pass of the loop of get_sources begins: favorites = {} and
\* get_favorites is awaited if the controller is signed in,
\* get_input_sources otherwise.
AttemptStarted(s) ==
    [s EXCEPT !.pc = IF s.signed_in THEN "favorites" ELSE "inputs",
              !.attempts = @ + 1, !.fetched = <<>>]

SourcesFrame ==
    UNCHANGED <<ctrlGroups, connected, groups, call, ent, devReg, entReg, query, setup>>

\* update_sources(event) up to its first await.  Another event does
\* nothing; a call of get_sources less than MIN_UPDATE_SOURCES after the
\* last one is throttled and returns None, so nothing is done either.  One
\* refresh is followed at a time.
SourcesEvent(event) ==
    /\ bridge.subscribed
    /\ sources.pc = "idle"
    /\ sources' = IF event \notin SourceEvents
                  THEN [sources EXCEPT !.last = "ignored", !.dispatched = 0,
                                       !.attempts = 0, !.retry_attempts = 0]
                  ELSE IF sources.recent
                  THEN [sources EXCEPT !.last = "throttled", !.dispatched = 0,
                                       !.attempts = 0, !.retry_attempts = 0]
                  ELSE AttemptStarted([sources EXCEPT !.last = "running",
                                                      !.recent = TRUE,
                                                      !.dispatched = 0,
                                                      !.attempts = 0,
                                                      !.retry_attempts = 0])
    /\ UNCHANGED bridge
    /\ SourcesFrame

\* MIN_UPDATE_SOURCES has passed since the last call of get_sources.
ThrottleExpires ==
    /\ sources.recent
    /\ sources' = [sources EXCEPT !.recent = FALSE]
    /\ UNCHANGED bridge
    /\ SourcesFrame

\* The user signs in or out of the HEOS account.
SignedInChanges ==
    /\ sources' = [sources EXCEPT !.signed_in = ~@]
    /\ UNCHANGED bridge
    /\ SourcesFrame

\* get_favorites returns; get_input_sources is awaited.
SourcesFavoritesReturns(favorites) ==
    /\ sources.pc = "favorites"
    /\ sources' = [sources EXCEPT !.pc = "inputs", !.fetched = favorites]
    /\ UNCHANGED bridge
    /\ SourcesFrame

\* get_input_sources returns: get_sources returns (favorites, inputs), a
\* tuple that is never falsy; update_sources replaces favorites and inputs,
\* rebuilds source_list and dispatches SIGNAL_HEOS_UPDATED.
SourcesInputsReturns(inputs) ==
    /\ sources.pc = "inputs"
    /\ sources' = [sources EXCEPT !.pc = "idle", !.last = "updated",
                                  !.favorites = sources.fetched,
                                  !.inputs = inputs,
                                  !.source_list = build_source_list(sources.fetched,
                                                                    inputs),
                                  !.fetched = <<>>,
                                  !.dispatched = @ + 1]
    /\ bridge' = Dispatched(bridge)
    /\ SourcesFrame

SourcesFetchRaises_clears ==
    /\ sources.pc \in {"favorites", "inputs"}
    /\ sources' = IF ShouldRetry(sources.retry_attempts)
                  THEN [sources EXCEPT !.pc = "sleeping", !.retry_attempts = @ + 1,
                                       !.fetched = <<>>]
                  ELSE [sources EXCEPT !.pc = "idle", !.last = "failed",
                                       !.fetched = <<>>, !.favorites = <<>>,
                                       !.inputs = <<>>, !.source_list = <<>>]
    /\ bridge' = IF ShouldRetry(sources.retry_attempts) THEN bridge
                 ELSE Dispatched(bridge)
    /\ SourcesFrame

\* get_favorites or get_input_sources raises HeosError: asyncio.sleep is
\* awaited for a retry, or the error is logged and get_sources returns
\* None, which update_sources ignores.
SourcesFetchRaises ==
    /\ sources.pc \in {"favorites", "inputs"}
    /\ sources' = IF ShouldRetry(sources.retry_attempts)
                  THEN [sources EXCEPT !.pc = "sleeping", !.retry_attempts = @ + 1,
                                       !.fetched = <<>>]
                  ELSE [sources EXCEPT !.pc = "idle", !.last = "failed",
                                       !.fetched = <<>>]
    /\ UNCHANGED bridge
    /\ SourcesFrame

\* asyncio.sleep(self.retry_delay) returns: the loop goes round.
SourcesSleepReturns ==
    /\ sources.pc = "sleeping"
    /\ sources' = AttemptStarted(sources)
    /\ UNCHANGED bridge
    /\ SourcesFrame

\* The SourceManager as the setup made it, with the lists it was given.
InitSources ==
    /\ ctrlGroups = <<>>
    /\ connected = TRUE
    /\ groups = <<>>
    /\ call = IdleCall
    /\ ent = [p \in Players |-> NewEntity]
    /\ devReg = InitialDevReg
    /\ entReg = InitialEntReg
    /\ bridge = IdleBridge
    /\ query = NoQuery
    /\ setup = SetupComplete
    /\ \E signed_in \in BOOLEAN, favorites \in FavoriteLists, inputs \in InputLists :
          sources = [IdleSources EXCEPT
                        !.signed_in = signed_in,
                        !.favorites = favorites,
                        !.inputs = inputs,
                        !.source_list = build_source_list(favorites, inputs)]

\* The steps of a refresh in progress.
SourcesStep ==
    \/ \E favorites \in FavoriteLists : SourcesFavoritesReturns(favorites)
    \/ \E inputs \in InputLists : SourcesInputsReturns(inputs)
    \/ SourcesFetchRaises
    \/ SourcesSleepReturns

NextSources ==
    \/ \E event \in HeosEvents : SourcesEvent(event)
    \/ ThrottleExpires
    \/ SignedInChanges
    \/ SourcesStep

SpecSources == InitSources /\ [][NextSources]_vars

\* Every request to the controller returns or raises, and every sleep ends.
SpecSourcesFair == SpecSources /\ WF_vars(SourcesStep)

\* ------------------------------------------- GroupManager: queries asked
\* The stores a query can meet: whatever mapping get_groups returned, a
\* dict of groups under distinct ids, here of up to two groups that may
\* name a player twice.
QueryGroups ==
    UNION {{MkGroup(leader, members) :
               members \in {m \in PlayerDicts : leader \notin Range(m)}}
           : leader \in Players}

QueryStores ==
    {<<>>} \cup {<<g>> : g \in QueryGroups}
           \cup {st \in {<<g, h>> : g, h \in QueryGroups} : st[1].gid # st[2].gid}

\* The group ids a caller can ask about: a player id, "" or None.
GroupIds == Players \cup {EmptyGroupId, NoneGroupId}

\* One query is followed, and the same query asked again.
Asks(kind, player, groupid) ==
    \/ query.kind = "none"
    \/ query.kind = kind /\ query.player = player /\ query.groupid = groupid

\* get_groupid(player)
QueryGroupId(player) ==
    /\ Asks("groupid", player, EmptyGroupId)
    /\ query' = [NoQuery EXCEPT !.kind = "groupid", !.player = player,
                                !.gid = get_groupid(groups, player)]
    /\ UNCHANGED <<ctrlGroups, connected, groups, call, ent, devReg, entReg, bridge, setup, sources>>

\* get_grouplist(groupid)
QueryGroupList(groupid) ==
    /\ Asks("grouplist", NonePlayer, groupid)
    /\ query' = [NoQuery EXCEPT !.kind = "grouplist", !.groupid = groupid,
                                !.list = get_grouplist(groups, groupid)]
    /\ UNCHANGED <<ctrlGroups, connected, groups, call, ent, devReg, entReg, bridge, setup, sources>>

\* get_groupname(groupid)
QueryGroupName(groupid) ==
    /\ Asks("groupname", NonePlayer, groupid)
    /\ query' = [NoQuery EXCEPT !.kind = "groupname", !.groupid = groupid,
                                !.name = get_groupname(groups, groupid)]
    /\ UNCHANGED <<ctrlGroups, connected, groups, call, ent, devReg, entReg, bridge, setup, sources>>

InitQuery ==
    /\ ctrlGroups = <<>>
    /\ connected = TRUE
    /\ groups \in QueryStores
    /\ call = IdleCall
    /\ ent = [p \in Players |-> NewEntity]
    /\ HostIdle

NextQuery ==
    \/ \E player \in Players : QueryGroupId(player)
    \/ \E groupid \in GroupIds : QueryGroupList(groupid)
    \/ \E groupid \in GroupIds : QueryGroupName(groupid)

SpecQuery == InitQuery /\ [][NextQuery]_vars

\* ------------------------------------------------- vocabulary of the claims
\* The refresh of the call failed / succeeded.
RefreshFailed(c) == c.pc = "done" /\ c.logged /\ ~c.invoked

Refreshed(c) == c.pc \in {"sending", "done"} /\ ~RefreshFailed(c)

\* The member list the controller receives with the command of the call.
SentPids == ParsePids(call.cmd)

GroupPlayers(g) == {g.leader} \cup Range(g.members)

Leaders(store) == {store[i].leader : i \in 1..Len(store)}

LedBy(store, p) == store[CHOOSE i \in 1..Len(store) : store[i].leader = p]

\* The groups of the store that have their leader or a member in a set.
Matching(store, removed) ==
    {i \in 1..Len(store) : GroupPlayers(store[i]) \cap removed # {}}

FirstMatching(store, removed) ==
    store[CHOOSE i \in Matching(store, removed) :
            \A j \in Matching(store, removed) : i <= j]

\* An unjoin call whose refresh succeeded and found a group to act on.
UnjoinMatched ==
    /\ call.op = "unjoin"
    /\ Refreshed(call)
    /\ Matching(groups, Range(call.members)) # {}

UnjoinGroup == FirstMatching(groups, Range(call.members))

\* A join call whose refresh succeeded.
JoinRefreshed == call.op = "join" /\ Refreshed(call)

\* ----------------------------------------------------------------- claims
\* C1: in an unjoin call whose first matching group G keeps its leader, no
\* player to remove that is a member of G is in the member list sent to the
\* controller, however many players are to be removed.
C1_RemovedMembersNotSent ==
    (UnjoinMatched /\ UnjoinGroup.leader \notin Range(call.members))
        => \A p \in Range(call.members) \cap Range(UnjoinGroup.members) :
              p \notin Range(SentPids)

\* C2 as claimed: an unjoin call that names the leader A of any group of the
\* refreshed store sends the leader-only list [A].
C2_AnyLeaderDissolved ==
    (call.op = "unjoin" /\ Refreshed(call))
        => \A a \in Range(call.members) \cap Leaders(groups) :
              call.invoked /\ SentPids = <<a>>

\* C2 as amended: when the first group of the refreshed store that has its
\* leader or a member among the players to remove has its leader A among
\* them, the command sent is the leader-only list [A], whatever other
\* players are to be removed.
C2_FirstMatchLeaderDissolved ==
    (UnjoinMatched /\ UnjoinGroup.leader \in Range(call.members))
        => call.invoked /\ SentPids = <<UnjoinGroup.leader>>

C2_Witness ==
    /\ UnjoinMatched
    /\ UnjoinGroup.leader \in Range(call.members)
    /\ Range(call.members) \cap Range(UnjoinGroup.members) # {}
    /\ call.returned = "ack"

\* C3: join(A, {}) with A leading no group of the refreshed store sends no
\* create_group command and returns None.
C3_JoinAloneSkipped ==
    (JoinRefreshed /\ call.members = <<>> /\ call.master \notin Leaders(groups))
        => ~call.invoked /\ call.pc = "done" /\ call.returned = "None"

\* C4: join(A, M) with M non-empty and A leading no group of the refreshed
\* store sends one command whose member list is exactly {A} and M, each
\* player once, A first.
C4_JoinNewGroup ==
    (JoinRefreshed /\ call.members # <<>> /\ call.master \notin Leaders(groups))
        => /\ call.invoked
           /\ IsInjective(SentPids)
           /\ Range(SentPids) = {call.master} \cup Range(call.members)
           /\ Head(SentPids) = call.master

C4_Witness ==
    /\ JoinRefreshed
    /\ call.master \notin Leaders(groups)
    /\ \E i \in 1..Len(groups) : player_member(groups[i], call.master)
    /\ Len(call.members) = 2
    /\ call.returned = "ack"

\* C5: join(A, M) with A leading a group with members S in the refreshed
\* store sends a command whose member list is exactly {A}, S and M, each
\* player once, A first.
C5_JoinExistingGroup ==
    (JoinRefreshed /\ call.master \in Leaders(groups))
        => /\ call.invoked
           /\ IsInjective(SentPids)
           /\ Range(SentPids) = {call.master}
                                  \cup Range(LedBy(groups, call.master).members)
                                  \cup Range(call.members)
           /\ Head(SentPids) = call.master

C5_Witness ==
    /\ JoinRefreshed
    /\ call.master \in Leaders(groups)
    /\ Range(call.members) \cap Range(LedBy(groups, call.master).members) # {}
    /\ Range(call.members) \ GroupPlayers(LedBy(groups, call.master)) # {}
    /\ Range(LedBy(groups, call.master).members) \ Range(call.members) # {}
    /\ call.returned = "ack"

\* C6: in an unjoin call that processes a group G whose leader stays, the
\* member list sent has G's leader first, has every member of G that is not
\* to be removed, and has no player from outside G.
C6_UnjoinKeepsLeaderAndOthers ==
    (UnjoinMatched /\ UnjoinGroup.leader \notin Range(call.members))
        => /\ call.invoked
           /\ Head(SentPids) = UnjoinGroup.leader
           /\ Range(UnjoinGroup.members) \ Range(call.members) \subseteq Range(SentPids)
           /\ Range(SentPids) \subseteq GroupPlayers(UnjoinGroup)

C6_Witness ==
    /\ UnjoinMatched
    /\ UnjoinGroup.leader \notin Range(call.members)
    /\ Range(UnjoinGroup.members) \ Range(call.members) # {}
    /\ Range(call.members) \ GroupPlayers(UnjoinGroup) # {}
    /\ call.returned = "ack"

\* C7: when the target set of an unjoin call is the leader alone, the
\* controller is still invoked, with a command naming just the leader.
C7_UnjoinLeaderOnlySent ==
    (UnjoinMatched /\ Len(call.newgroup) = 1)
        => /\ call.invoked
           /\ SentPids = <<UnjoinGroup.leader>>

C7_Witness ==
    /\ UnjoinMatched
    /\ Len(call.newgroup) = 1
    /\ UnjoinGroup.leader \notin Range(call.members)
    /\ Len(UnjoinGroup.members) = 1
    /\ call.returned = "ack"

\* C8: an unjoin call sends no command and returns None when no group of the
\* refreshed store has its leader or a member among the players to remove.
C8_UnjoinNoMatchNoCommand ==
    (call.op = "unjoin" /\ Refreshed(call)
       /\ Matching(groups, Range(call.members)) = {})
        => /\ ~call.invoked
           /\ call.cmd = <<>>
           /\ call.pc = "done"
           /\ call.returned = "None"
           /\ ~call.logged

C8_Witness ==
    /\ call.op = "unjoin"
    /\ Refreshed(call)
    /\ Matching(groups, Range(call.members)) = {}
    /\ groups # <<>>
    /\ call.members # <<>>

\* C9: when get_groups fails during refresh_groups, the store is exactly the
\* mapping it held before, and get_groupid, get_grouplist and get_groupname
\* answer as before.
C9_FailedRefreshKeepsStore ==
    [][(call.pc = "refreshing" /\ RefreshFailed(call'))
         => /\ groups' = groups
            /\ \A p \in Players :
                 /\ get_groupid(groups', p) = get_groupid(groups, p)
                 /\ get_grouplist(groups', p) = get_grouplist(groups, p)
                 /\ get_groupname(groups', p) = get_groupname(groups, p)]_vars

C9_Witness ==
    /\ RefreshFailed(call)
    /\ groups # <<>>
    /\ groups # ctrlGroups
    /\ \E p \in Players : get_groupid(groups, p) # get_groupid(ctrlGroups, p)

\* C10: when the refresh of an entity's get_groups fails with a controller
\* error, the entity's group id, member list and group name stay what they
\* were before the refresh.
C10_FailedRefreshKeepsEntityState ==
    [][\A p \in Players :
         (ent[p].status = "refreshing" /\ ent'[p].status = "error")
           => /\ ent'[p].groupid = ent[p].groupid
              /\ ent'[p].group_list = ent[p].group_list
              /\ ent'[p].group_name = ent[p].group_name]_vars

\* C11: while the connection state is not Connected, the groupinfo, join and
\* unjoin handlers return without raising (an error is logged), no
\* get_groups, get_players or create_group request goes to the controller,
\* and the group store and the controller's topology stay as they were.
C11_DisconnectedHandlerDoesNothing ==
    [][~connected
         => /\ groups' = groups
            /\ ctrlGroups' = ctrlGroups
            /\ call'.pc = "done"
            /\ call'.op \in {"groupinfo", "join", "unjoin"}
            /\ call'.raised = "none"
            /\ call'.returned = "None"
            /\ call'.logged
            /\ call'.refreshes = 0
            /\ call'.playerloads = 0
            /\ call'.creates = 0
            /\ ~call'.invoked]_vars

C11_Witness ==
    /\ ~connected
    /\ call.pc = "done"
    /\ call.op = "unjoin"
    /\ call.logged
    /\ groups # <<>>
    /\ groups # ctrlGroups

\* A step in which update_ids ran.
UpdateIdsRan == bridge'.updates = bridge.updates + 1

\* Some device or entity record is keyed by an old id of the mapping.
KeyedByOld(mapped, device_registry, entity_registry) ==
    \E i \in DOMAIN mapped :
        \/ \E r \in DOMAIN device_registry :
              device_registry[r].key = mapped[i].old
        \/ \E r \in DOMAIN entity_registry :
              entity_registry[r].unique_id = ToString(mapped[i].old)

\* C12: applying update_ids with the same mapping a second time, when no
\* device or entity record is keyed by an old id of it any more, raises no
\* error and changes neither the device registry nor the entity registry.
C12_RemapIdempotent ==
    [][(/\ UpdateIdsRan
        /\ bridge.updates >= 1
        /\ bridge'.mapped = bridge.mapped
        /\ ~KeyedByOld(bridge.mapped, devReg, entReg))
         => /\ devReg' = devReg
            /\ entReg' = entReg
            /\ ~bridge'.raised]_vars

C12_Witness ==
    /\ bridge.updates = 2
    /\ ~bridge.raised
    /\ ~KeyedByOld(bridge.mapped, devReg, entReg)
    /\ \E r \in DOMAIN devReg :
          /\ devReg[r].id # "device" \o ToString(devReg[r].key)
          /\ \E i \in DOMAIN bridge.mapped : bridge.mapped[i].new = devReg[r].key
    /\ \E r \in DOMAIN entReg :
          /\ entReg[r].entity_id # "media_player.heos" \o entReg[r].unique_id
          /\ \E i \in DOMAIN bridge.mapped :
                ToString(bridge.mapped[i].new) = entReg[r].unique_id

\* The id a mapping gives to a record keyed by id: map(o) for an old id o,
\* the id itself otherwise.
MapId(mapped, id) ==
    IF \E i \in DOMAIN mapped : mapped[i].old = id
    THEN mapped[CHOOSE i \in DOMAIN mapped : mapped[i].old = id].new
    ELSE id

MapUniqueId(mapped, unique_id) ==
    IF \E i \in DOMAIN mapped : ToString(mapped[i].old) = unique_id
    THEN ToString(mapped[CHOOSE i \in DOMAIN mapped :
                             ToString(mapped[i].old) = unique_id].new)
    ELSE unique_id

\* C13: after update_ids with any mapping (chains and swaps included),
\* every device and entity record that was keyed by an old id o is keyed by
\* map(o), re-keyed once, and every other record is unchanged.
C13_EveryRecordRekeyedOnce ==
    [][UpdateIdsRan
         => /\ ~bridge'.raised
            /\ devReg' = [r \in DOMAIN devReg |->
                            [devReg[r] EXCEPT !.key = MapId(bridge'.mapped, @)]]
            /\ entReg' = [r \in DOMAIN entReg |->
                            [entReg[r] EXCEPT
                               !.unique_id = MapUniqueId(bridge'.mapped, @)]]]_vars

\* A step in which the controller answers a request of the call with an
\* error.
ControllerFails == call.fault = "none" /\ call'.fault = "HeosError"

\* C14: a HeosError out of get_groups, get_players or create_group during
\* join, unjoin or groupinfo, or out of the refresh of an entity's
\* get_groups, is not propagated: the operation returns None with the error
\* logged, and the store is the mapping of the last refresh that succeeded.
C14_ControllerErrorContained ==
    [][/\ ControllerFails
          => /\ call'.pc = "done"
             /\ call'.raised = "none"
             /\ call'.returned = "None"
             /\ call'.logged
             /\ groups' = groups
             /\ call.pc \in {"sending", "info_players"} => groups' = ctrlGroups
       /\ \A p \in Players :
            (ent[p].status = "refreshing" /\ ent'[p].status # "ok")
              => /\ ent'[p].status = "error"
                 /\ groups' = groups]_vars

C14_Witness ==
    /\ call.pc = "done"
    /\ call.op = "join"
    /\ call.fault = "HeosError"
    /\ call.invoked
    /\ call.raised = "none"
    /\ groups # <<>>

\* C15: a join whose master entity id resolves to no player entity returns
\* without raising any exception and sends no create_group command.
C15_UnknownMasterIsEmptyResult ==
    (call.op = "join" /\ call.master = NonePlayer /\ call.pc = "done")
      => /\ call.raised = "none"
         /\ call.creates = 0
         /\ ~call.invoked

\* C16: once teardown has begun (ControllerManager.disconnect or the
\* host-stop handler) the connection is down and the event subscriptions
\* are removed, and from then on no update signal is dispatched and neither
\* the registries, the store nor an entity's group state changes, not even
\* by a handler that was in flight when teardown began.
C16_NothingAfterTeardown ==
    [][/\ bridge'.teardown # "none"
          => /\ ~connected'
             /\ ~bridge'.subscribed
       /\ bridge.teardown # "none"
          => /\ bridge'.signals = bridge.signals
             /\ devReg' = devReg
             /\ entReg' = entReg
             /\ groups' = groups
             /\ ent' = ent]_vars

\* C17: a join or unjoin call issues exactly one get_groups refresh and at
\* most one create_group command; a refresh or a command that fails ends
\* the call, it is not tried again.
C17_OneRefreshOneCommand ==
    call.op \in {"join", "unjoin"}
      => /\ call.refreshes = 1
         /\ call.creates <= 1
         /\ call.creates = 1 <=> call.invoked
         /\ call.fault = "HeosError" => call.pc = "done"

C17_Witness ==
    /\ call.op = "unjoin"
    /\ call.pc = "done"
    /\ call.fault = "HeosError"
    /\ call.refreshes = 1
    /\ call.creates = 1

\* The places in the store of the groups that player leads or is a member of.
Holding(store, player) ==
    {i \in 1..Len(store) :
        store[i].leader = player \/ player \in Range(store[i].members)}

\* C18: get_groupid(player) returns the id of the first group in store
\* order whose leader is the player or whose members contain the player, ""
\* when the player is in no group; it answers the same for the same store
\* and player, and leaves the store unchanged.
C18_GroupIdOfFirstHoldingGroup ==
    [][query'.kind = "groupid"
         => /\ groups' = groups
            /\ LET holding == Holding(groups, query'.player)
               IN  IF holding = {}
                   THEN query'.gid = EmptyGroupId
                   ELSE query'.gid =
                          groups[CHOOSE i \in holding : \A j \in holding : i <= j].gid
            /\ (query.kind = "groupid" /\ query.player = query'.player)
                 => query'.gid = query.gid]_vars

C18_Witness ==
    /\ query.kind = "groupid"
    /\ Len(groups) = 2
    /\ Holding(groups, query.player) = {1, 2}
    /\ groups[1].leader # query.player
    /\ query.gid = groups[1].gid

\* C19: get_grouplist(group_id) returns the entity of the group's leader
\* first, then those of its members in the order of the store, one entry per
\* player; for an id that is no key of the store ("" included) get_grouplist
\* returns [] and get_groupname returns "".
C19_GroupListLeaderFirst ==
    /\ query.kind = "grouplist"
         => IF \E i \in 1..Len(groups) : groups[i].gid = query.groupid
            THEN \E i \in 1..Len(groups) :
                    /\ groups[i].gid = query.groupid
                    /\ Len(query.list) = 1 + Len(groups[i].members)
                    /\ query.list[1] = EntityIdOf(groups[i].leader)
                    /\ \A k \in 1..Len(groups[i].members) :
                          query.list[k + 1] = EntityIdOf(groups[i].members[k])
            ELSE query.list = <<>>
    /\ query.kind = "groupname"
         => IF \E i \in 1..Len(groups) : groups[i].gid = query.groupid
            THEN \E i \in 1..Len(groups) :
                    /\ groups[i].gid = query.groupid
                    /\ query.name = groups[i].name
            ELSE query.name = EmptyName

C19_Witness ==
    /\ query.kind = "grouplist"
    /\ Len(query.list) = 3
    /\ Len(groups) = 2
    /\ groups[2].gid = query.groupid

\* The store groupinfo has just refreshed, after a join or unjoin whose
\* command the controller acknowledged.
RefreshedAfterCommand ==
    /\ call.op = "groupinfo"
    /\ call.playerloads = 1
    /\ call.prev.op \in {"join", "unjoin"}
    /\ call.prev.returned = "ack"

C21_LeaderNotAMember ==
    /\ \A i \in 1..Len(groups) : groups[i].leader \notin Range(groups[i].members)
    /\ call.invoked
         => \A k \in 2..Len(SentPids) : SentPids[k] # SentPids[1]

C21_Witness ==
    /\ call.op = "join"
    /\ call.master \in Range(call.members)
    /\ call.invoked
    /\ call.returned = "ack"
    /\ Len(SentPids) >= 2
    /\ groups # <<>>

\* C22: join and unjoin refresh the store first and compute the target set
\* from the mapping that refresh obtained, never from the mapping cached
\* before; when the refresh fails no create_group command is sent.
C22_TargetFromOwnRefresh ==
    [][/\ call'.pc = "refreshing"
          => /\ call'.refreshes = 1
             /\ call'.newgroup = <<>>
             /\ ~call'.invoked
       /\ (call.pc = "refreshing" /\ call'.fault = "none")
          => /\ groups' = ctrlGroups
             /\ call'.newgroup =
                  IF call.op = "join"
                  THEN join_newgroup(ctrlGroups, call.master, call.members)
                  ELSE unjoin_newgroup(ctrlGroups, call.members)
       /\ (call.pc = "refreshing" /\ call'.fault = "HeosError")
          => /\ call'.pc = "done"
             /\ ~call'.invoked
             /\ call'.creates = 0
             /\ ctrlGroups' = ctrlGroups]_vars

C22_Witness ==
    /\ call.op = "join"
    /\ call.pc = "sending"
    /\ call.replaced
    /\ call.master \in Leaders(groups)
    /\ Len(call.newgroup) > Len(call.members) + 1

\* C23: unjoin acts on one group per call, the first group in store order
\* that has its leader or a member among the players to remove: the command
\* is led by that group's leader and names players of that group only, and
\* no player of a group later in the order, also when the players to remove
\* are spread over several groups.
C23_UnjoinFirstGroupOnly ==
    UnjoinMatched
      => /\ call.invoked
         /\ SentPids = call.newgroup
         /\ SentPids[1] = UnjoinGroup.leader
         /\ Range(SentPids) \subseteq GroupPlayers(UnjoinGroup)
         /\ \A i \in 1..Len(groups) :
              groups[i] # UnjoinGroup
                => GroupPlayers(groups[i]) \cap Range(SentPids) = {}

C23_Witness ==
    /\ UnjoinMatched
    /\ Cardinality(Matching(groups, Range(call.members))) = 2
    /\ call.returned = "ack"

\* The entity of p leaves get_groups with the answers of its queries.
Queried(p) == ent[p].status = "refreshing" /\ ent'[p].status = "ok"

\* C24: the queries of an entity (get_groupid, get_grouplist,
\* get_groupname) are evaluated in the step in which its own refresh
\* returns, on the mapping that refresh has just put into the store: after
\* an acknowledged join or unjoin no query is answered from the mapping of
\* before the command.
C24_QueriesFollowRefresh ==
    [][\A p \in Players :
         Queried(p)
           => /\ groups' = ctrlGroups
              /\ ent'[p].groupid = get_groupid(ctrlGroups, p)
              /\ ent'[p].group_list = get_grouplist(ctrlGroups, ent'[p].groupid)
              /\ ent'[p].group_name = get_groupname(ctrlGroups, ent'[p].groupid)]_vars

C24_Witness ==
    /\ call.returned = "ack"
    /\ call.changed
    /\ \E p \in Players :
          /\ ent[p].status = "ok"
          /\ p \in Range(call.newgroup)
          /\ p # call.newgroup[1]
          /\ ent[p].groupid = call.newgroup[1]
          /\ Len(ent[p].group_list) = Len(call.newgroup)

\* The operations on the store that are between their first await and
\* their return.
CallsInFlight == IF call.pc \in {"refreshing", "sending"} THEN {call.op} ELSE {}

RefreshesInFlight == {p \in Players : ent[p].status = "refreshing"}

\* C27: access to the store is serialized: at no time are two operations
\* among refresh, join and unjoin in flight on the controller connection.
C27_StoreAccessSerialized ==
    Cardinality(CallsInFlight) + Cardinality(RefreshesInFlight) <= 1

\* C28: events are handled in arrival order: while the handler of an
\* earlier connected event awaits load_players, no update_ids is applied and
\* no signal is dispatched for a later event; the next such effect is the
\* one that ends the waiting handler.
C28_EventsInArrivalOrder ==
    [][bridge.handler = "loading"
         => \/ bridge'.handler = "idle"
            \/ /\ bridge'.updates = bridge.updates
               /\ bridge'.signals = bridge.signals
               /\ devReg' = devReg
               /\ entReg' = entReg]_vars

\* A handler of the bridge dispatches SIGNAL_HEOS_UPDATED in this step.
SignalDispatched == bridge'.signals # bridge.signals

\* C25: on a connected event or a notification of the controller the store
\* is refreshed and then the signal is dispatched: at the dispatch the
\* store holds the groups the controller has.
C25_RefreshThenSignal ==
    [][SignalDispatched => groups' = RefreshedStore(groups, ctrlGroups)]_vars

\* C26: refreshes are coalesced: with one refresh of get_groups in flight,
\* whatever the number of events and entities, at most one more is issued.
C26_RefreshesCoalesced == Cardinality(RefreshesInFlight) <= 2

\* get_groups of the entity of player p is called in this step.
GetGroupsStarted(p) ==
    /\ ent[p].status # "refreshing"
    /\ ent'[p] # ent[p]

\* C29: get_groups called while the controller is not connected performs no
\* refresh and leaves the group id, the member list and the group name of
\* the entity, and the store, as they were.
C29_NotConnectedNoChange ==
    [][\A p \in Players :
          (~connected /\ GetGroupsStarted(p))
             => /\ ent'[p].status = "refused"
                /\ ent'[p].groupid = ent[p].groupid
                /\ ent'[p].group_list = ent[p].group_list
                /\ ent'[p].group_name = ent[p].group_name
                /\ groups' = groups]_vars

C29_Witness ==
    \E p \in Players :
        /\ ~connected
        /\ ent[p].status = "refused"
        /\ ent[p].groupid \notin {NoneGroupId, EmptyGroupId}
        /\ Len(ent[p].group_list) > 1
        /\ groups # <<>>

\* Two joins for the same leader, each with new members of its own,
\* overlapped: each had refreshed before the command of the other was
\* acknowledged, and both commands are acknowledged.
JoinsOverlapped ==
    /\ call.op = "join"
    /\ call.pc = "done"
    /\ call.returned = "ack"
    /\ call.second.pc = "done"
    /\ call.second.returned = "ack"
    /\ call.second.early
    /\ call.second.late
    /\ call.members # <<>>
    /\ call.second.members # <<>>
    /\ Range(call.members) \cap Range(call.second.members) = {}

\* The players of the group the master leads in the store.
LedPlayers(store, master) ==
    UNION {{store[i].leader} \cup Range(store[i].members)
           : i \in {j \in DOMAIN store : store[j].leader = master}}

\* C30: two overlapping joins for the same leader lose no player: after
\* both acknowledgements a refreshed store has the new members of both
\* calls in the leader's group.
C30_OverlappingJoinsKeepAll ==
    JoinsOverlapped
        => (Range(call.members) \cup Range(call.second.members))
              \subseteq LedPlayers(RefreshedStore(groups, ctrlGroups), call.master)

\* The comma-separated list of the player ids of a target set: the ids in
\* order with one comma between two of them.
RECURSIVE CsvOf(_)
CsvOf(newgroup) ==
    IF newgroup = <<>> THEN <<>>
    ELSE IF Len(newgroup) = 1 THEN <<ToString(Head(newgroup))>>
    ELSE <<ToString(Head(newgroup)), Comma>> \o CsvOf(Tail(newgroup))

\* C31: the string a join or unjoin passes to create_group is the
\* comma-separated list of the ids of its target set, in order, each id
\* once, with no empty element.
C31_CommandIsCsv ==
    call.invoked
        => /\ call.cmd = CsvOf(call.newgroup)
           /\ IsInjective(call.newgroup)

\* The three group attributes of an entity are the answers of one mapping.
FromSnapshot(e, store, player) ==
    /\ e.groupid = get_groupid(store, player)
    /\ e.group_list = get_grouplist(store, e.groupid)
    /\ e.group_name = get_groupname(store, e.groupid)

\* C32: an entity that leaves get_groups with success holds a group id, a
\* member list and a group name that all come from one mapping, the one its
\* own refresh put into the store, whatever join or unjoin runs meanwhile.
C32_OneSnapshot ==
    [][\A p \in Players :
         Queried(p) => FromSnapshot(ent'[p], groups', p)]_vars

C32_Witness ==
    /\ call.pc = "done"
    /\ call.changed
    /\ \E p \in Players :
          /\ ent[p].status = "ok"
          /\ p = call.master
          /\ ent[p].groupid = p
          /\ Len(ent[p].group_list) > 1
          /\ ent[p].group_name # get_groupname(<<>>, p)
          /\ FromSnapshot(ent[p], groups, p)

\* The entity shows no group: _groupid is None (never refreshed) or "".
NoGroupId(e) == e.groupid \in {NoneGroupId, EmptyGroupId}

\* C33: the group attributes of an entity agree with each other in every
\* state: the member list is empty exactly when the group id is unset or
\* empty.
C33_AttributesConsistent ==
    \A p \in Players : (ent[p].group_list = <<>>) <=> NoGroupId(ent[p])

\* C34: a HeosError at any point of async_setup_entry ends the setup with
\* the controller disconnected and ConfigEntryNotReady raised, with no
\* service registered and no integration data stored.
C34_SetupErrorCleansUp ==
    (setup.pc = "done" /\ setup.fault)
        => /\ setup.disconnected
           /\ ~connected
           /\ setup.result = "ConfigEntryNotReady"
           /\ ~setup.services
           /\ ~setup.data

\* A pass of the loop of get_sources is awaiting the controller.
Fetching == sources.pc \in {"favorites", "inputs"}

\* C35: the refresh of the sources ends: it makes at most
\* COMMAND_RETRY_ATTEMPTS + 1 passes, every pass but the first follows an
\* error of the pass before it, and a refresh in progress comes to its end.
C35_SourceRefreshTerminates ==
    /\ [](sources.attempts <= COMMAND_RETRY_ATTEMPTS + 1)
    /\ [](Fetching => sources.attempts = sources.retry_attempts + 1)
    /\ [][(sources.attempts >= 1 /\ sources'.attempts = sources.attempts + 1)
            => sources.pc = "sleeping"]_vars
    /\ ((sources.pc # "idle") ~> (sources.pc = "idle"))

C35_Witness ==
    /\ sources.pc = "idle"
    /\ sources.last = "failed"
    /\ sources.attempts = COMMAND_RETRY_ATTEMPTS + 1
    /\ sources.retry_attempts = COMMAND_RETRY_ATTEMPTS

\* The lists of the SourceManager.
SourceLists(s) == <<s.favorites, s.inputs, s.source_list>>

\* get_sources returns (favorites, inputs) to update_sources in this step.
SourcesFetched == sources.pc = "inputs" /\ sources'.pc = "idle" /\ sources'.last = "updated"

\* C36: favorites, inputs and source_list change, and the update signal is
\* dispatched, in no step but the one in which get_sources succeeds (not
\* when the retries are used up, the call is throttled or the event is
\* another one); in that step the three lists are replaced together and the
\* signal is dispatched once.
C36_SourcesReplacedOnlyOnSuccess ==
    /\ [][IF SourcesFetched
          THEN /\ sources'.favorites = sources.fetched
               /\ sources'.source_list = sources'.favorites \o sources'.inputs
               /\ sources'.inputs \in InputLists
               /\ bridge'.signals # bridge.signals
               /\ bridge'.pending = Players
               /\ sources'.dispatched = 1
          ELSE /\ SourceLists(sources') = SourceLists(sources)
               /\ bridge'.signals = bridge.signals
               /\ sources'.dispatched \in {0, sources.dispatched}]_vars
    /\ [](sources.last \in {"failed", "throttled", "ignored"}
             => sources.dispatched = 0)

C36_Witness ==
    /\ sources.pc = "idle"
    /\ sources.last = "failed"
    /\ bridge.signals = 1
    /\ Len(sources.source_list) = 3
    /\ sources.dispatched = 0

====
